---- MODULE Spec2Model ----
(***************************************************************************)
(* Model of the client-side query cache (class QueryCache, queryCache.ts)  *)
(* and of the Media page's cache check of the FlourishTalents application, *)
(* of the page's loading of content and interaction state, of its          *)
(* pagination, and of the database schema with its row level security      *)
(* policies and triggers.                                                  *)
(*                                                                         *)
(* Time is the clock read by Date.now(), in milliseconds.  The clock is a  *)
(* simulated one: advancing it runs, as part of the advance, the callback  *)
(* of every setTimeout timer that has become due.                          *)
(***************************************************************************)
EXTENDS Integers, FiniteSets, Sequences, TLC

\* ---------------------------------------------------------------- bounds
\* cache keys, cached values and errors the callers use
\* (callers store data under k1 with any value and ttl, and under the second
\* key k2 with one value and the default ttl)
Keys == {"k1", "k2"}
Values == {"v1", "v2"}
Errors == {"e1"}
\* number of times the simulated clock is advanced in one run
MaxAdvances == 3
\* number of setTimeout callbacks pending at one time
MaxTimers == 2
\* content pages (category:page) and signed-in users of the Media page
PageKeys == {"stream:1", "stream:2"}
Users == {"u1"}
\* number of loadPage calls in one run
MaxCalls == 2

\* the most steps of the clock of the Media page, and of the clock while
\* several QueryCache instances are used
MaxElapses == 2

\* the ids of the users who sign up, and of the system user of the seed
UserIds == {"u1", "u2"}
SystemUser == "sys"
\* the emails users sign up with
Emails == {"a@x", "b@x"}
SystemEmail == "system@flourishtalents.local"
\* the ids of media_content rows
MediaIds == {"m1"}
\* the values a statement writes to likes_count
CountInputs == {0, -1}
\* the likes_count of a seeded system content row (the seed has thousands)
SeedLikes == 2

\* the default TTL the caller of createQueryCache passes, when it passes
\* one, and the ttl of its set calls that outlasts it
ShortTTL == 2
LongTTL == 10

\* the most rows the content query matches
MaxRows == 40

\* const ITEMS_PER_PAGE = 12
ITEMS_PER_PAGE == 12

\* the most rows of tips
MaxTips == 2
\* the most rows of media_likes: one more than the pairs of a user and a
\* media there are
MaxLikes == 4

\* ------------------------------------------------------------- constants
\* constructor(defaultTTL: number = 5 * 60 * 1000)
DEFAULT_TTL == 300000
\* JavaScript null: the data of an error entry and the result of a missed get
Null == "null"
\* const CACHE_DURATION = 5 * 60 * 1000 of the Media page
CACHE_DURATION == 300000

\* raw_user_meta_data->>'name' at signup (absent, or a name), and the
\* creator names tips are sent to
MetaNames == {Null, "c1", "c2"}
CreatorNames == {"c1", "c2"}

VARIABLES
    cache,       \* QueryCache.cache: Map<string, CacheEntry>
    defaultTTL,  \* QueryCache.defaultTTL
    timers,      \* pending setTimeout callbacks, each [key, due]
    now,         \* Date.now()
    advances,    \* how often the clock was advanced
    ttlOf,       \* per stored data entry, the ttl its set was called with
    log,         \* per key, the history of the calls that wrote to it
    last,        \* the last call made on the cache and what it returned
    pageCache,   \* the Media page's cache: Map<string, CacheEntry>
    storedBy,    \* per entry of pageCache, the loadPage call that stored it
    calls,       \* the loadPage calls made so far, by number
    userLikesCache,    \* Map<string, Set<string>>: per user, the liked media
    userFollowsCache,  \* Map<string, Set<string>>: per user, the followed creators
    mediaContent,      \* the loadPage call whose page the Media page shows, or 0
    currentPage,       \* the page number the Media page is on
    count,             \* the exact count of rows the content query matches
    mediaData,         \* the last range query: its page, bounds and row indices
    auth_users,        \* table auth.users: the (id, email) rows
    profiles,          \* table profiles: the (id, email) rows
    media_content,     \* table media_content: per id, the row
    media_likes,       \* table media_likes: the (id, user_id, media_id) rows, and who inserted each
    stmt,              \* the last database statement: auth.uid(), operation, outcome
    instances,         \* the QueryCache instances: per name, cache, defaultTTL, timers
    lastOn,            \* the last call made on an instance and what it returned
    profileNames,      \* table profiles, where tips are sent: per id, the name
    tips,              \* table tips: the (id, from_user_id, creator_name) rows
    seen               \* the last SELECT on tips: auth.uid(), the table, the rows read

cacheVars == <<cache, defaultTTL, timers, ttlOf, log, last>>

pageVars == <<pageCache, storedBy, calls, userLikesCache, userFollowsCache,
              mediaContent>>

rangeVars == <<currentPage, count, mediaData>>

dbVars == <<auth_users, profiles, media_content, media_likes, stmt>>

instVars == <<instances, lastOn>>

tipVars == <<profileNames, tips, seen>>

vars == <<cache, defaultTTL, timers, now, advances, ttlOf, log, last,
          pageCache, storedBy, calls, userLikesCache, userFollowsCache,
          mediaContent, currentPage, count, mediaData,
          auth_users, profiles, media_content, media_likes, stmt,
          instances, lastOn, profileNames, tips, seen>>

\* the ttl arguments passed to set: shorter than, equal to (the argument's
\* default value) and longer than the instance default
TTLs(d) == {1, d, d + 2}

\* the amounts by which the simulated clock is advanced
Deltas(d) == {1, d - 1}

\* the record of a call: the method, its key and data or error argument, and
\* the result (ret of get; flag of has, of Map.delete, and for clear whether
\* the map held data and error entries; num of getSize and the advance's amount)
NoCall == [op |-> "new", key |-> Null, arg |-> Null,
           ret |-> Null, flag |-> FALSE, num |-> 0]

\* the history of a key no call has written to yet
NoWrites == [n |-> 0, data |-> Null, at |-> 0, ttl |-> 0]

\* the history of a key after one more writing call (set, setError, delete,
\* clear): n counts the calls up to 2, and while the only call was a set,
\* data, at and ttl are that set's data, time and ttl
Written(h, data, t, ttl) ==
    IF h.n = 0 /\ data # Null
    THEN [n |-> 1, data |-> data, at |-> t, ttl |-> ttl]
    ELSE [n |-> 2, data |-> Null, at |-> 0, ttl |-> 0]

\* Map.delete(key)
MapDelete(m, k) == [j \in (DOMAIN m) \ {k} |-> m[j]]

\* Map.set(key, entry)
MapSet(m, k, e) == [j \in (DOMAIN m) \cup {k} |-> IF j = k THEN e ELSE m[j]]

\* the entry written by set
DataEntry(data, t) == [data |-> data, timestamp |-> t, error |-> Null]

\* the entry written by setError
ErrorEntry(error, t) == [data |-> Null, timestamp |-> t, error |-> error]

Timer_default(key, ttl, t) == [key |-> key, due |-> t + DEFAULT_TTL]

Timer_late(key, ttl, t) == [key |-> key, due |-> t + ttl + 1]

\* setTimeout(() => this.cache.delete(key), ttl)
Timer(key, ttl, t) == [key |-> key, due |-> t + ttl]

IsStale_flipped(entry, t, d) == t - entry.timestamp < d

\* get's staleness test
IsStale(entry, t, d) == t - entry.timestamp > d

\* what get(key) returns
GetReturn(k) ==
    IF k \notin DOMAIN cache THEN Null
    ELSE IF IsStale(cache[k], now, defaultTTL) THEN Null
    ELSE cache[k].data

GetCache_keep(k) == cache

GetCache_touch(k) ==
    IF k \in DOMAIN cache /\ IsStale(cache[k], now, defaultTTL)
    THEN MapDelete(cache, k)
    ELSE [j \in DOMAIN cache |->
             IF j = k THEN [cache[j] EXCEPT !.timestamp = now] ELSE cache[j]]

\* the map get(key) leaves behind
GetCache(k) ==
    IF k \in DOMAIN cache /\ IsStale(cache[k], now, defaultTTL)
    THEN MapDelete(cache, k)
    ELSE cache

HasReturn_fresh(k) == k \in DOMAIN cache /\ ~IsStale(cache[k], now, defaultTTL)

\* what has(key) returns
HasReturn(k) == k \in DOMAIN cache

GetSizeReturn_data == Cardinality({k \in DOMAIN cache : cache[k].error = Null})

\* what getSize() returns
GetSizeReturn == Cardinality(DOMAIN cache)

\* no range query made yet
NoData == [page |-> 0, from |-> 0, to |-> 0, rows |-> <<>>]

\* no database statement run yet
NoStatement == [uid |-> Null, op |-> "none", ok |-> FALSE, error |-> Null]

\* new QueryCache(defaultTTL): an empty map, no timer pending
New(d) == [cache |-> <<>>, defaultTTL |-> d, timers |-> {}]

\* no call made on any instance yet
NoCallOn == [inst |-> Null, op |-> "new", key |-> Null, ret |-> Null]

\* the least element of a non-empty set of numbers
Least(S) == CHOOSE x \in S : \A y \in S : x <= y

\* no SELECT on tips run yet
NoSelect == [uid |-> Null, table |-> {}, rows |-> {}]

\* the ttl bookkeeping follows the data entries of the map
TtlAfter(m, old) == [j \in {i \in DOMAIN m : m[i].error = Null} |-> old[j]]

InitButCount ==
    /\ cache = <<>>
    /\ defaultTTL = DEFAULT_TTL
    /\ timers = {}
    /\ now = 0
    /\ advances = 0
    /\ ttlOf = <<>>
    /\ log = [k \in Keys |-> NoWrites]
    /\ last = NoCall
    /\ pageCache = <<>>
    /\ storedBy = <<>>
    /\ calls = <<>>
    /\ userLikesCache = <<>>
    /\ userFollowsCache = <<>>
    /\ mediaContent = 0
    /\ currentPage = 1
    /\ mediaData = NoData
    /\ auth_users = {}
    /\ profiles = {}
    /\ media_content = <<>>
    /\ media_likes = {}
    /\ stmt = NoStatement
    /\ instances = [globalQueryCache |-> New(DEFAULT_TTL)]
    /\ lastOn = NoCallOn
    /\ profileNames = <<>>
    /\ tips = {}
    /\ seen = NoSelect

\* the state after construction, before any row matches the content query
Init ==
    /\ InitButCount
    /\ count = 0

Set(k, v, ttl) ==
    /\ Cardinality(timers \cup {Timer(k, ttl, now)}) <= MaxTimers
    /\ cache' = MapSet(cache, k, DataEntry(v, now))
    /\ timers' = timers \cup {Timer(k, ttl, now)}
    /\ ttlOf' = MapSet(TtlAfter(MapDelete(cache, k), ttlOf), k, ttl)
    /\ log' = [log EXCEPT ![k] = Written(log[k], v, now, ttl)]
    /\ last' = [NoCall EXCEPT !.op = "set", !.key = k, !.arg = v]
    /\ UNCHANGED <<defaultTTL, now, advances>>
    /\ UNCHANGED <<pageVars, rangeVars, dbVars, instVars, tipVars>>

Get(k) ==
    /\ cache' = GetCache(k)
    /\ ttlOf' = TtlAfter(cache', ttlOf)
    /\ last' = [NoCall EXCEPT !.op = "get", !.key = k, !.ret = GetReturn(k)]
    /\ UNCHANGED <<defaultTTL, timers, now, advances, log>>
    /\ UNCHANGED <<pageVars, rangeVars, dbVars, instVars, tipVars>>

Has(k) ==
    /\ last' = [NoCall EXCEPT !.op = "has", !.key = k, !.flag = HasReturn(k)]
    /\ UNCHANGED <<cache, defaultTTL, timers, now, advances, ttlOf, log>>
    /\ UNCHANGED <<pageVars, rangeVars, dbVars, instVars, tipVars>>

ClearCache_data == [k \in {j \in DOMAIN cache : cache[j].error # Null} |-> cache[k]]

\* the map clear() leaves behind
ClearCache == <<>>

\* whether the map holds a data entry and an error entry
Mixed == /\ \E k \in DOMAIN cache : cache[k].error = Null
         /\ \E k \in DOMAIN cache : cache[k].error # Null

Clear ==
    /\ cache' = ClearCache
    /\ ttlOf' = TtlAfter(cache', ttlOf)
    /\ log' = [k \in Keys |-> Written(log[k], Null, now, 0)]
    /\ last' = [NoCall EXCEPT !.op = "clear", !.flag = Mixed]
    /\ UNCHANGED <<defaultTTL, timers, now, advances>>
    /\ UNCHANGED <<pageVars, rangeVars, dbVars, instVars, tipVars>>

DeleteCache_stale(k) == GetCache(k)

\* the map delete(key) leaves behind
DeleteCache(k) == MapDelete(cache, k)

Delete(k) ==
    /\ cache' = DeleteCache(k)
    /\ ttlOf' = TtlAfter(cache', ttlOf)
    /\ log' = [log EXCEPT ![k] = Written(log[k], Null, now, 0)]
    /\ last' = [NoCall EXCEPT !.op = "delete", !.key = k, !.flag = HasReturn(k)]
    /\ UNCHANGED <<defaultTTL, timers, now, advances>>
    /\ UNCHANGED <<pageVars, rangeVars, dbVars, instVars, tipVars>>

SetError(k, e) ==
    /\ cache' = MapSet(cache, k, ErrorEntry(e, now))
    /\ ttlOf' = TtlAfter(cache', ttlOf)
    /\ log' = [log EXCEPT ![k] = Written(log[k], Null, now, 0)]
    /\ last' = [NoCall EXCEPT !.op = "setError", !.key = k, !.arg = e]
    /\ UNCHANGED <<defaultTTL, timers, now, advances>>
    /\ UNCHANGED <<pageVars, rangeVars, dbVars, instVars, tipVars>>

GetSize ==
    /\ last' = [NoCall EXCEPT !.op = "getSize", !.num = GetSizeReturn]
    /\ UNCHANGED <<cache, defaultTTL, timers, now, advances, ttlOf, log>>
    /\ UNCHANGED <<pageVars, rangeVars, dbVars, instVars, tipVars>>

\* the timers whose callback runs when the clock reaches t
Due(t) == {tm \in timers : tm.due <= t}

Fired_all(m, ts) == IF ts = {} THEN m ELSE <<>>

\* the map after the callbacks of the timers in ts have run
Fired(m, ts) == [j \in (DOMAIN m) \ {tm.key : tm \in ts} |-> m[j]]

Advance(d) ==
    /\ advances < MaxAdvances
    /\ advances' = advances + 1
    /\ now' = now + d
    /\ cache' = Fired(cache, Due(now + d))
    /\ timers' = timers \ Due(now + d)
    /\ ttlOf' = TtlAfter(cache', ttlOf)
    /\ last' = [NoCall EXCEPT !.op = "advance", !.num = d]
    /\ UNCHANGED <<defaultTTL, log>>
    /\ UNCHANGED <<pageVars, rangeVars, dbVars, instVars, tipVars>>

Next ==
    \/ \E v \in Values, ttl \in TTLs(defaultTTL) : Set("k1", v, ttl)
    \/ Set("k2", "v1", defaultTTL)
    \/ \E k \in Keys : Get(k)
    \/ \E k \in Keys : Has(k)
    \/ Clear
    \/ \E k \in Keys : Delete(k)
    \/ \E k \in Keys, e \in Errors : SetError(k, e)
    \/ GetSize
    \/ \E d \in Deltas(defaultTTL) : Advance(d)

Spec == Init /\ [][Next]_vars

\* --------------------------------------------------- the Media page: loadPage

\* an unauthenticated caller
NoUser == Null

\* the rows the remote content store returns for a page
Rows(key) == key

CacheHit_flipped(m, key, t, user) ==
    key \in DOMAIN m /\ t - m[key].timestamp > CACHE_DURATION /\ user = NoUser

\* the Media page's cache check:
\* cachedEntry && now - cachedEntry.timestamp < CACHE_DURATION && !user
CacheHit_anyUser(m, key, t, user) ==
    key \in DOMAIN m /\ t - m[key].timestamp < CACHE_DURATION

CacheHit(m, key, t, user) ==
    key \in DOMAIN m /\ t - m[key].timestamp < CACHE_DURATION /\ user = NoUser

\* the liked media and the followed creators the remote interaction store
\* returns for a user
RemoteLikes(user) == {"m1"}

RemoteFollows(user) == {"c1"}

\* the in-memory interaction cache check: if (cachedLikes && cachedFollows)
InteractionsCached(user) ==
    user \in DOMAIN userLikesCache /\ user \in DOMAIN userFollowsCache

PromiseAll_settled(a, b) ==
    IF a # "pending" /\ b # "pending" THEN "fulfilled" ELSE "pending"

\* await Promise.all([likes query, follows query]): rejected as soon as one
\* of the two is, fulfilled when both are
PromiseAll(a, b) ==
    IF a = "failed" \/ b = "failed" THEN "rejected"
    ELSE IF a = "ok" /\ b = "ok" THEN "fulfilled"
    ELSE "pending"

\* the number of the next loadPage call
NextCall == Len(calls) + 1

\* the record of a loadPage call: its arguments, what made it (the user or
\* a change notification), its state (fetching, interactions, hit, done,
\* failed), the remote content queries it issued, the page it returned and
\* the interaction sets merged into it, the state of its likes and follows
\* queries (none, pending, ok, failed), and what the page cache held when
\* it looked: for its key the storing call, or 0, and the entry's age
Call(key, user, pc, queries, result) ==
    [key |-> key, user |-> user, by |-> "user", pc |-> pc,
     queries |-> queries, result |-> result, merged |-> "none",
     likes |-> "none", follows |-> "none",
     seenBy |-> IF key \in DOMAIN pageCache THEN storedBy[key] ELSE 0,
     seenAge |-> IF key \in DOMAIN pageCache
                 THEN now - pageCache[key].timestamp ELSE 0]

\* the call loadPage begins with: the cache check, and on a miss the issue
\* of the one remote content query
Begun(key, user) ==
    IF CacheHit(pageCache, key, now, user)
    THEN Call(key, user, "hit", 0, pageCache[key].data)
    ELSE Call(key, user, "fetching", 1, Null)

\* loadPage(category, pageNumber, userId?) up to its first await; a page
\* served from the cache is shown at once
LoadPage(key, user) ==
    /\ NextCall <= MaxCalls
    /\ calls' = Append(calls, Begun(key, user))
    /\ mediaContent' = IF Begun(key, user).pc = "hit" THEN NextCall
                       ELSE mediaContent
    /\ UNCHANGED <<pageCache, storedBy, userLikesCache, userFollowsCache,
                   now, advances>>
    /\ UNCHANGED <<cacheVars, rangeVars, dbVars, instVars, tipVars>>

\* the page the Media page is on: that of its latest loadPage call
CurrentKey == IF calls = <<>> THEN "stream:1" ELSE calls[Len(calls)].key

\* the user of the Media page: that of its latest loadPage call
CurrentUser == IF calls = <<>> THEN NoUser ELSE calls[Len(calls)].user

\* the handler of the media_likes change subscription: fetchMediaContent()
Notification ==
    /\ NextCall <= MaxCalls
    /\ calls' = Append(calls, [Begun(CurrentKey, CurrentUser)
                                  EXCEPT !.by = "notify"])
    /\ mediaContent' = IF Begun(CurrentKey, CurrentUser).pc = "hit"
                       THEN NextCall ELSE mediaContent
    /\ UNCHANGED <<pageCache, storedBy, userLikesCache, userFollowsCache,
                   now, advances>>
    /\ UNCHANGED <<cacheVars, rangeVars, dbVars, instVars, tipVars>>

\* the remote content query of call i succeeds.  An unauthenticated call
\* stores the page with the current timestamp and returns it.  An
\* authenticated call takes the user's interaction state from the in-memory
\* cache, or issues the likes and the follows query together.
ContentLoaded(i) ==
    /\ calls[i].pc = "fetching"
    /\ IF calls[i].user = NoUser
       THEN /\ calls' = [calls EXCEPT ![i].pc = "done",
                                      ![i].result = Rows(calls[i].key)]
            /\ pageCache' = MapSet(pageCache, calls[i].key,
                     [data |-> Rows(calls[i].key), timestamp |-> now])
            /\ storedBy' = MapSet(storedBy, calls[i].key, i)
            /\ mediaContent' = i
       ELSE IF InteractionsCached(calls[i].user)
       THEN /\ calls' = [calls EXCEPT ![i].pc = "done",
                                      ![i].result = Rows(calls[i].key),
                                      ![i].merged = "both"]
            /\ mediaContent' = i
            /\ UNCHANGED <<pageCache, storedBy>>
       ELSE /\ calls' = [calls EXCEPT ![i].pc = "interactions",
                                      ![i].likes = "pending",
                                      ![i].follows = "pending"]
            /\ UNCHANGED <<pageCache, storedBy, mediaContent>>
    /\ UNCHANGED <<userLikesCache, userFollowsCache, now, advances>>
    /\ UNCHANGED <<cacheVars, rangeVars, dbVars, instVars, tipVars>>

ContentFailed_poison(i) ==
    /\ calls[i].pc = "fetching"
    /\ calls' = [calls EXCEPT ![i].pc = "failed"]
    /\ pageCache' = MapSet(pageCache, calls[i].key,
                           [data |-> Null, timestamp |-> now])
    /\ storedBy' = MapSet(storedBy, calls[i].key, i)
    /\ UNCHANGED <<userLikesCache, userFollowsCache, mediaContent,
                   now, advances>>
    /\ UNCHANGED <<cacheVars, rangeVars, dbVars, instVars, tipVars>>

\* the remote content query of call i fails: the failure is returned and
\* nothing is stored
ContentFailed(i) ==
    /\ calls[i].pc = "fetching"
    /\ calls' = [calls EXCEPT ![i].pc = "failed"]
    /\ UNCHANGED <<pageCache, storedBy, userLikesCache, userFollowsCache,
                   mediaContent, now, advances>>
    /\ UNCHANGED <<cacheVars, rangeVars, dbVars, instVars, tipVars>>

\* which interaction sets a page is merged with when the join lets the
\* call go on
Merged(a, b) ==
    IF a = "ok" /\ b = "ok" THEN "both"
    ELSE IF a = "ok" THEN "likes"
    ELSE IF b = "ok" THEN "follows"
    ELSE "none"

\* call i after its likes query went to state a and its follows query to b:
\* a rejected join fails the call, a fulfilled one memoizes the two sets and
\* returns the merged page
Joined(i, a, b) ==
    /\ calls' = [calls EXCEPT
           ![i].likes = a,
           ![i].follows = b,
           ![i].pc = IF PromiseAll(a, b) = "rejected" THEN "failed"
                     ELSE IF PromiseAll(a, b) = "fulfilled" THEN "done"
                     ELSE "interactions",
           ![i].result = IF PromiseAll(a, b) = "fulfilled"
                         THEN Rows(calls[i].key) ELSE Null,
           ![i].merged = IF PromiseAll(a, b) = "fulfilled"
                         THEN Merged(a, b) ELSE "none"]
    /\ IF PromiseAll(a, b) = "fulfilled"
       THEN /\ userLikesCache' =
                   MapSet(userLikesCache, calls[i].user, RemoteLikes(calls[i].user))
            /\ userFollowsCache' =
                   MapSet(userFollowsCache, calls[i].user, RemoteFollows(calls[i].user))
            /\ mediaContent' = i
       ELSE UNCHANGED <<userLikesCache, userFollowsCache, mediaContent>>
    /\ UNCHANGED <<pageCache, storedBy, now, advances>>
    /\ UNCHANGED <<cacheVars, rangeVars, dbVars, instVars, tipVars>>

\* the likes query of call i completes
LikesDone(i, outcome) ==
    /\ calls[i].pc = "interactions"
    /\ calls[i].likes = "pending"
    /\ Joined(i, outcome, calls[i].follows)

\* the follows query of call i completes
FollowsDone(i, outcome) ==
    /\ calls[i].pc = "interactions"
    /\ calls[i].follows = "pending"
    /\ Joined(i, calls[i].likes, outcome)

\* the clock of the Media page moves on
Elapse(d) ==
    /\ advances < MaxElapses
    /\ advances' = advances + 1
    /\ now' = now + d
    /\ UNCHANGED <<pageVars, rangeVars, dbVars, instVars, tipVars>>
    /\ UNCHANGED cacheVars

NextPage ==
    \/ \E key \in PageKeys, user \in Users \cup {NoUser} : LoadPage(key, user)
    \/ Notification
    \/ \E i \in DOMAIN calls : ContentLoaded(i)
    \/ \E i \in DOMAIN calls : ContentFailed(i)
    \/ \E i \in DOMAIN calls, outcome \in {"ok", "failed"} : LikesDone(i, outcome)
    \/ \E i \in DOMAIN calls, outcome \in {"ok", "failed"} : FollowsDone(i, outcome)
    \/ \E d \in Deltas(CACHE_DURATION) : Elapse(d)

SpecPage == Init /\ [][NextPage]_vars

\* ------------------------------------------------------------------ claims

\* the age of the entry stored under k
Age(k) == now - cache[k].timestamp

\* C1: set(k, v, t) followed immediately by get(k) returns v, for every key,
\* value and ttl (shorter than, equal to or longer than the default).
C1_SetThenGet == last.op = "set" => GetReturn(last.key) = last.arg

\* a set with a custom ttl longer than the default, on a clock that has moved
C1_Witness ==
    /\ last.op = "set"
    /\ ttlOf[last.key] > defaultTTL
    /\ now > 0
    /\ GetReturn(last.key) = last.arg

\* C2: get(k) returns the stored value only while the entry's age is strictly
\* less than the default TTL; from age = default TTL on it returns absent,
\* also for an entry stored with a longer custom ttl.
C2_AbsentFromDefaultTTL ==
    [][\A k \in Keys :
        (last'.op = "get" /\ last'.key = k /\ k \in DOMAIN cache
            /\ Age(k) >= defaultTTL) => last'.ret = Null]_vars

\* C3: with default TTL 300000 ms, a key stored once by set(k, v) with the
\* default ttl and written by no other call is returned by get at every time
\* less than 300000 ms after the set and is absent at 300000 ms and later.
C3_DefaultWindow ==
    \A k \in Keys :
        (defaultTTL = 300000 /\ log[k].n = 1 /\ log[k].ttl = defaultTTL) =>
            IF now - log[k].at < 300000
            THEN GetReturn(k) = log[k].data
            ELSE GetReturn(k) = Null

\* get has just returned absent exactly 300000 ms after the only set
C3_Witness ==
    /\ last.op = "get"
    /\ last.ret = Null
    /\ defaultTTL = 300000
    /\ log[last.key].n = 1
    /\ log[last.key].ttl = defaultTTL
    /\ now - log[last.key].at = 300000

\* C4: the entry stored by set(k, v, t) is removed once t has elapsed: a data
\* entry is in the map only while its age is less than the ttl of its set,
\* and a key written only by one set(k, v, t) has no entry from t on (has is
\* false, get absent, getSize does not count it).
C4_RemovedAfterTTL ==
    \A k \in Keys :
        /\ (k \in DOMAIN cache /\ cache[k].error = Null) => Age(k) < ttlOf[k]
        /\ (log[k].n = 1 /\ now >= log[k].at + log[k].ttl) =>
               /\ ~HasReturn(k)
               /\ GetReturn(k) = Null
               /\ GetSizeReturn = Cardinality((DOMAIN cache) \ {k})

\* has(k) has just returned false for a key whose set had a ttl shorter than
\* the default, after the ttl and before the default TTL
C4_Witness ==
    /\ last.op = "has"
    /\ ~last.flag
    /\ log[last.key].n = 1
    /\ log[last.key].ttl < defaultTTL
    /\ now >= log[last.key].at + log[last.key].ttl
    /\ now - log[last.key].at < defaultTTL

\* C5: after delete(k), get(k) returns absent and has(k) false; delete(k) of a
\* key without entry leaves the map (and the timers and the clock) unchanged.
C5_Delete ==
    [][\A k \in Keys :
        (last'.op = "delete" /\ last'.key = k) =>
            /\ GetReturn(k)' = Null
            /\ ~HasReturn(k)'
            /\ k \notin DOMAIN cache =>
                   /\ cache' = cache
                   /\ timers' = timers
                   /\ now' = now]_vars

\* delete has just removed a fresh data entry
C5_Witness ==
    /\ last.op = "delete"
    /\ last.flag
    /\ \E tm \in timers : tm.key = last.key
    /\ GetReturn(last.key) = Null

\* C6: after clear() the store is empty: getSize() is 0, and for every key
\* has is false and get absent.
C6_Clear ==
    last.op = "clear" =>
        /\ GetSizeReturn = 0
        /\ \A k \in Keys : ~HasReturn(k) /\ GetReturn(k) = Null

\* clear has just emptied a map of data and error entries, timers pending
C6_Witness ==
    /\ last.op = "clear"
    /\ last.flag
    /\ timers # {}
    /\ GetSizeReturn = 0

\* C7: has(k) is true exactly when the map holds an entry for k, stale or
\* not, and has changes nothing.
C7_Has ==
    [][\A k \in Keys :
        (last'.op = "has" /\ last'.key = k) =>
            /\ last'.flag = (k \in DOMAIN cache)
            /\ UNCHANGED <<cache, defaultTTL, timers, now>>]_vars

\* has has just returned true for a data entry that get reports absent: its
\* age lies between the default TTL and its own longer ttl
C7_Witness ==
    /\ last.op = "has"
    /\ last.flag
    /\ cache[last.key].error = Null
    /\ Age(last.key) > defaultTTL
    /\ Age(last.key) < ttlOf[last.key]
    /\ GetReturn(last.key) = Null

\* what the public methods return about key k other than a boolean or a
\* number: the result of get
Inspect(k) == {GetReturn(k)}

\* C8: after setError(k, e), get(k) returns absent and e is retrievable
\* through a method of the cache.
C8_ErrorRetrievable ==
    last.op = "setError" =>
        /\ GetReturn(last.key) = Null
        /\ last.arg \in Inspect(last.key)

\* C9: getSize() is the number of keys with an entry; set and setError raise
\* it by 1 on a new key and leave it unchanged on an existing key; it is
\* never negative.
C9_Size ==
    [][/\ last'.op = "getSize" => last'.num = Cardinality(DOMAIN cache)
       /\ last'.op \in {"set", "setError"} =>
              GetSizeReturn' =
                  GetSizeReturn + (IF last'.key \in DOMAIN cache THEN 0 ELSE 1)
       /\ GetSizeReturn' >= 0]_vars

\* getSize has just counted a data entry and an error entry
C9_Witness ==
    /\ last.op = "getSize"
    /\ last.num = 2
    /\ Mixed

\* C10: an unauthenticated loadPage call that begins within the TTL window of
\* the entry an earlier unauthenticated call for the same page stored is
\* served from the cache with zero remote calls, so that the two calls issue
\* exactly one remote content query in total.
C10_SecondCallCached ==
    \A j \in DOMAIN calls :
        (calls[j].user = NoUser /\ calls[j].seenBy # 0
            /\ calls[j].seenAge < CACHE_DURATION) =>
                /\ calls[j].pc = "hit"
                /\ calls[j].queries = 0
                /\ calls[j].result = Rows(calls[j].key)
                /\ calls[calls[j].seenBy].user = NoUser
                /\ calls[calls[j].seenBy].key = calls[j].key
                /\ calls[calls[j].seenBy].queries + calls[j].queries = 1

\* two unauthenticated calls for one page, the second 299999 ms after the
\* first stored its page, with one remote content query between them
C10_Witness ==
    /\ Len(calls) = 2
    /\ calls[1].user = NoUser /\ calls[1].pc = "done" /\ calls[1].queries = 1
    /\ calls[2].user = NoUser /\ calls[2].pc = "hit" /\ calls[2].queries = 0
    /\ calls[2].key = calls[1].key
    /\ calls[2].seenBy = 1
    /\ calls[2].seenAge = CACHE_DURATION - 1

\* the authenticated loadPage calls made so far
Authenticated == {i \in DOMAIN calls : calls[i].user # NoUser}

ContentQueryFailed(i) == calls[i].pc = "failed" /\ calls[i].likes = "none"

\* C12: when its content query fails, a loadPage call returns the failure
\* having issued that one query and no other (no retry), and the step leaves
\* the page cache and the page shown as they were, so that no entry of the
\* page cache was ever written by a failed call; and the next request, for
\* the same page and user and finding the page cache as the failed call
\* found it, issues the remote content query again.
C12_FailureNotCached ==
    [][/\ \A i \in DOMAIN calls :
              (calls[i].pc = "fetching" /\ calls'[i].pc = "failed")
                  => /\ pageCache' = pageCache
                     /\ storedBy' = storedBy
                     /\ mediaContent' = mediaContent
                     /\ calls'[i].queries = 1
                     /\ calls'[i].result = Null
       /\ \A k \in DOMAIN pageCache' : calls'[storedBy'[k]].pc = "done"
       /\ (Len(calls') > Len(calls) /\ calls # <<>>)
              => LET i == Len(calls)
                     j == Len(calls')
                 IN  (/\ ContentQueryFailed(i)
                      /\ calls'[j].key = calls[i].key
                      /\ calls'[j].user = calls[i].user
                      /\ calls'[j].seenBy = calls[i].seenBy)
                         => /\ calls'[j].pc = "fetching"
                            /\ calls'[j].queries = 1]_vars

\* a request whose content query failed, followed by the same request, which
\* is fetching again, with nothing in the page cache
C12_Witness ==
    /\ Len(calls) = 2
    /\ ContentQueryFailed(1)
    /\ calls[2].key = calls[1].key
    /\ calls[2].user = calls[1].user
    /\ calls[2].pc = "fetching"
    /\ pageCache = <<>>

\* ---------------------------------------------------------------------
\* Pagination of the Media page: the range query of the current page

StartIdx_next(page) == page * ITEMS_PER_PAGE

\* const startIdx = (currentPage - 1) * ITEMS_PER_PAGE
StartIdx(page) == (page - 1) * ITEMS_PER_PAGE

EndIdx_exclusive(page) == StartIdx(page) + ITEMS_PER_PAGE

\* the second argument of .range(startIdx, startIdx + ITEMS_PER_PAGE - 1)
EndIdx(page) == StartIdx(page) + ITEMS_PER_PAGE - 1

Min(a, b) == IF a <= b THEN a ELSE b

\* .range(from, to) over n matching rows, numbered from 0: the rows from
\* index from to index to, both included, that exist
Range(n, from, to) ==
    [j \in 1..(Min(to, n - 1) - from + 1) |-> from + j - 1]

\* the number of pages of n rows
TotalPages(n) == (n + ITEMS_PER_PAGE - 1) \div ITEMS_PER_PAGE

\* the state of the Media page over a table of any size up to MaxRows
InitRange ==
    /\ InitButCount
    /\ count \in 0..MaxRows

\* the content query of the current page
FetchRange ==
    /\ mediaData' = [page |-> currentPage,
                     from |-> StartIdx(currentPage),
                     to |-> EndIdx(currentPage),
                     rows |-> Range(count, StartIdx(currentPage),
                                    EndIdx(currentPage))]
    /\ UNCHANGED <<currentPage, count, now, advances>>
    /\ UNCHANGED <<cacheVars, pageVars, dbVars, instVars, tipVars>>

\* the Next Page button: setCurrentPage(prev => prev + 1)
NextPageClick ==
    /\ TotalPages(count) > 1
    /\ currentPage < TotalPages(count)
    /\ currentPage' = currentPage + 1
    /\ UNCHANGED <<count, mediaData, now, advances>>
    /\ UNCHANGED <<cacheVars, pageVars, dbVars, instVars, tipVars>>

NextRange ==
    \/ FetchRange
    \/ NextPageClick

SpecRange == InitRange /\ [][NextRange]_vars

\* the elements of a sequence
Elems(q) == {q[j] : j \in DOMAIN q}

\* C13: for page p >= 1 and page size n = ITEMS_PER_PAGE the content query
\* starts at offset (p - 1) * n and asks for the inclusive range from
\* (p - 1) * n to (p - 1) * n + n - 1: it returns at most n rows, exactly the
\* existing rows whose index divided by n is p - 1, in order; with n = 12
\* the offset is 0 for page 1 and 12 for page 2.
C13_PageRange ==
    mediaData.page # 0 =>
        LET p == mediaData.page
            n == ITEMS_PER_PAGE
        IN  /\ p >= 1
            /\ mediaData.from = (p - 1) * n
            /\ mediaData.to = (p - 1) * n + n - 1
            /\ mediaData.to - mediaData.from + 1 = n
            /\ Len(mediaData.rows) <= n
            /\ Elems(mediaData.rows) = {r \in 0..(count - 1) : r \div n = p - 1}
            /\ \A j \in DOMAIN mediaData.rows :
                   mediaData.rows[j] = mediaData.from + j - 1
            /\ (n = 12 /\ p = 1) => mediaData.from = 0
            /\ (n = 12 /\ p = 2) => mediaData.from = 12

\* page 2 of more than two pages of rows was fetched: a full page from
\* offset 12
C13_Witness ==
    /\ mediaData.page = 2
    /\ mediaData.from = 12
    /\ Len(mediaData.rows) = ITEMS_PER_PAGE
    /\ count > 2 * ITEMS_PER_PAGE

\* the interaction queries call i issued
InteractionQueries(i) ==
    (IF calls[i].likes = "none" THEN 0 ELSE 1)
        + (IF calls[i].follows = "none" THEN 0 ELSE 1)

\* no authenticated call is served from the page cache, and no entry of the
\* page cache was stored by an authenticated call
NeverFromPageCache ==
    /\ \A i \in Authenticated : calls[i].pc # "hit" /\ calls[i].queries = 1
    /\ \A k \in DOMAIN pageCache : calls[storedBy[k]].user = NoUser

C15_NotificationInvalidates ==
    [][(Len(calls') > Len(calls) /\ calls'[Len(calls')].by = "notify")
           => /\ userLikesCache' = <<>>
              /\ userFollowsCache' = <<>>
              /\ pageCache' = pageCache]_vars

\* C16: when a newer page request supersedes one still in flight, the late
\* response of the superseded request is discarded: neither the page shown
\* nor the page cache is ever updated from a response to a request that is no
\* longer the current one.
C16_LateResponseDiscarded ==
    [][\A i \in DOMAIN calls :
           (/\ i < Len(calls)
            /\ calls[i].pc \in {"fetching", "interactions"}
            /\ calls'[i] # calls[i])
               => /\ pageCache' = pageCache
                  /\ mediaContent' = mediaContent]_vars

\* ---------------------------------------------------------------------
\* The database: auth.users, profiles, media_content and media_likes with
\* their constraints, the row level security policies in force after the
\* last migration, and the triggers.  A statement runs either for an
\* authenticated user, whose id is auth.uid(), or for a role that bypasses
\* row level security (a migration, the service role), whose uid is Null.

AllUserIds == UserIds \cup {SystemUser}

\* the ids of the rows of a table
Ids(table) == {r.id : r \in table}

\* the statement just run: who ran it, what it was, whether it took effect
Statement(uid, op, done) ==
    [uid |-> uid, op |-> op, ok |-> done, error |-> Null]

\* the constraints of profiles on a new row: primary key id, email UNIQUE
\* NOT NULL, id REFERENCES auth.users(id)
ProfileAccepted(table, users, row) ==
    /\ row.id \notin Ids(table)
    /\ row.email # Null
    /\ row.email \notin {r.email : r \in table}
    /\ row.id \in Ids(users)

\* INSERT INTO profiles: whether the statement raised an error, and the
\* table after it
ProfileInserted(table, users, row) ==
    IF ProfileAccepted(table, users, row)
    THEN [error |-> FALSE, profiles |-> table \cup {row}]
    ELSE [error |-> TRUE, profiles |-> table]

HandleNewUser_none(table, users, new) == [error |-> FALSE, profiles |-> table]

\* handle_new_user(), AFTER INSERT ON auth.users: the profile of the new user
HandleNewUser(table, users, new) ==
    ProfileInserted(table, users \cup {new}, [id |-> new.id, email |-> new.email])

\* the policies of media_content after the last migration
MediaInsertCheck(uid, row) == uid = row.user_id \/ row.system_content

MediaUpdateUsing_original(uid, row) == uid = row.user_id

MediaUpdateUsing(uid, row) == uid = row.user_id /\ ~row.system_content

MediaDeleteUsing(uid, row) == uid = row.user_id /\ ~row.system_content

\* the policies of media_likes
LikeInsertCheck(uid, row) == uid = row.user_id

LikeUnique_none(likes, row) == TRUE

\* UNIQUE(user_id, media_id) of media_likes, for a new row
LikeUnique(likes, row) ==
    \A l \in likes : ~(l.user_id = row.user_id /\ l.media_id = row.media_id)

LikeDeleteUsing(uid, row) == uid = row.user_id

\* the rows of media_content an UPDATE run for uid may change
Updatable(uid, content) ==
    {m \in DOMAIN content : uid = Null \/ MediaUpdateUsing(uid, content[m])}

Greatest(a, b) == IF a >= b THEN a ELSE b

\* update_media_likes_count(), AFTER INSERT ON media_likes, run for uid
LikeCounted(uid, content, m) ==
    IF m \in Updatable(uid, content)
    THEN [content EXCEPT ![m].likes_count = @ + 1]
    ELSE content

\* update_media_likes_count(), AFTER DELETE ON media_likes, run for uid
UnlikeCounted(uid, content, m) ==
    IF m \in Updatable(uid, content)
    THEN [content EXCEPT ![m].likes_count = Greatest(0, @ - 1)]
    ELSE content

\* a signup: INSERT INTO auth.users, with its trigger; an error of the
\* trigger aborts the statement
SignUp(id, email) ==
    /\ id \notin Ids(auth_users)
    /\ LET new == [id |-> id, email |-> email]
           created == HandleNewUser(profiles, auth_users, new)
       IN  IF created.error
           THEN /\ UNCHANGED <<auth_users, profiles>>
                /\ stmt' = Statement(Null, "signup", FALSE)
           ELSE /\ auth_users' = auth_users \cup {new}
                /\ profiles' = created.profiles
                /\ stmt' = Statement(Null, "signup", TRUE)
    /\ UNCHANGED <<media_content, media_likes, now, advances>>
    /\ UNCHANGED <<cacheVars, pageVars, rangeVars, instVars, tipVars>>

\* the likes a DELETE of user id, or of the media rows gone, takes along
CascadedLikes(id, gone) ==
    {l \in media_likes : l.user_id = id \/ l.media_id \in gone}

\* DELETE FROM auth.users, run by a role that bypasses row level security:
\* ON DELETE CASCADE removes the profile, the media of the user and the likes
\* of the user and on that media, and every like removed from a media row
\* that stays is counted down
DeleteUser(id) ==
    /\ id \in Ids(auth_users)
    /\ LET gone == {m \in DOMAIN media_content : media_content[m].user_id = id}
           kept == (DOMAIN media_content) \ gone
       IN  /\ media_likes' = media_likes \ CascadedLikes(id, gone)
           /\ media_content' =
                  [m \in kept |->
                      IF \E l \in CascadedLikes(id, gone) : l.media_id = m
                      THEN UnlikeCounted(Null, media_content, m)[m]
                      ELSE media_content[m]]
    /\ auth_users' = {u \in auth_users : u.id # id}
    /\ profiles' = {r \in profiles : r.id # id}
    /\ stmt' = Statement(Null, "delete_user", TRUE)
    /\ UNCHANGED <<now, advances>>
    /\ UNCHANGED <<cacheVars, pageVars, rangeVars, instVars, tipVars>>

\* a new media_content row
MediaRow(user_id, system_content, likes_count) ==
    [user_id |-> user_id, system_content |-> system_content,
     likes_count |-> likes_count]

\* the seed of user content (the DO block): the content is given to an
\* existing profile or, when there is none, to a system user the block
\* inserts into auth.users
SeedUserContent(m) ==
    /\ m \notin DOMAIN media_content
    /\ IF profiles = {}
       THEN LET new == [id |-> SystemUser, email |-> SystemEmail]
                created == HandleNewUser(profiles, auth_users, new)
            IN  /\ ~created.error
                /\ auth_users' = auth_users \cup {new}
                /\ profiles' = created.profiles
                /\ media_content' =
                       MapSet(media_content, m, MediaRow(SystemUser, FALSE, 0))
       ELSE /\ \E r \in profiles :
                   media_content' =
                       MapSet(media_content, m, MediaRow(r.id, FALSE, 0))
            /\ UNCHANGED <<auth_users, profiles>>
    /\ stmt' = Statement(Null, "seed_user_content", TRUE)
    /\ UNCHANGED <<media_likes, now, advances>>
    /\ UNCHANGED <<cacheVars, pageVars, rangeVars, instVars, tipVars>>

\* the seed of system content: rows without a user, system_content = true
SeedSystemContent(m) ==
    /\ m \notin DOMAIN media_content
    /\ media_content' = MapSet(media_content, m, MediaRow(Null, TRUE, SeedLikes))
    /\ stmt' = Statement(Null, "seed_system_content", TRUE)
    /\ UNCHANGED <<auth_users, profiles, media_likes, now, advances>>
    /\ UNCHANGED <<cacheVars, pageVars, rangeVars, instVars, tipVars>>

\* INSERT INTO profiles by the authenticated user uid
InsertProfile(uid, id, email) ==
    /\ uid \in Ids(auth_users)
    /\ LET created == ProfileInserted(profiles, auth_users,
                                      [id |-> id, email |-> email])
       IN  IF uid = id /\ ~created.error
           THEN /\ profiles' = created.profiles
                /\ stmt' = Statement(uid, "insert_profile", TRUE)
           ELSE /\ UNCHANGED profiles
                /\ stmt' = Statement(uid, "insert_profile", FALSE)
    /\ UNCHANGED <<auth_users, media_content, media_likes, now, advances>>
    /\ UNCHANGED <<cacheVars, pageVars, rangeVars, instVars, tipVars>>

\* INSERT INTO media_content by the authenticated user uid: user_id is NULL
\* or REFERENCES profiles(id), and the insert policy checks the row
InsertMedia(uid, m, row) ==
    /\ uid \in Ids(auth_users)
    /\ m \notin DOMAIN media_content
    /\ IF /\ row.user_id \in Ids(profiles) \cup {Null}
          /\ MediaInsertCheck(uid, row)
       THEN /\ media_content' = MapSet(media_content, m, row)
            /\ stmt' = Statement(uid, "insert_media", TRUE)
       ELSE /\ UNCHANGED media_content
            /\ stmt' = Statement(uid, "insert_media", FALSE)
    /\ UNCHANGED <<auth_users, profiles, media_likes, now, advances>>
    /\ UNCHANGED <<cacheVars, pageVars, rangeVars, instVars, tipVars>>

\* UPDATE media_content SET ... WHERE id = m by the authenticated user uid:
\* the update policy picks the row and checks the new row
UpdateMedia(uid, m, row) ==
    /\ uid \in Ids(auth_users)
    /\ m \in DOMAIN media_content
    /\ IF /\ MediaUpdateUsing(uid, media_content[m])
          /\ MediaUpdateUsing(uid, row)
          /\ row.user_id \in Ids(profiles) \cup {Null}
       THEN /\ media_content' = [media_content EXCEPT ![m] = row]
            /\ stmt' = Statement(uid, "update_media", TRUE)
       ELSE /\ UNCHANGED media_content
            /\ stmt' = Statement(uid, "update_media", FALSE)
    /\ UNCHANGED <<auth_users, profiles, media_likes, now, advances>>
    /\ UNCHANGED <<cacheVars, pageVars, rangeVars, instVars, tipVars>>

\* DELETE FROM media_content WHERE id = m by the authenticated user uid; the
\* likes of the row go with it
DeleteMedia(uid, m) ==
    /\ uid \in Ids(auth_users)
    /\ m \in DOMAIN media_content
    /\ IF MediaDeleteUsing(uid, media_content[m])
       THEN /\ media_content' = MapDelete(media_content, m)
            /\ media_likes' = {l \in media_likes : l.media_id # m}
            /\ stmt' = Statement(uid, "delete_media", TRUE)
       ELSE /\ UNCHANGED <<media_content, media_likes>>
            /\ stmt' = Statement(uid, "delete_media", FALSE)
    /\ UNCHANGED <<auth_users, profiles, now, advances>>
    /\ UNCHANGED <<cacheVars, pageVars, rangeVars, instVars, tipVars>>

\* INSERT INTO media_likes (user_id, media_id) by the authenticated user uid:
\* the row gets a new id, both references exist, the insert policy checks the
\* row, and the pair is UNIQUE: a second insert of a pair, also one made
\* while the first is in flight, fails on the unique index; then the trigger
\* counts the like, as the same user
Like(uid, user_id, m) ==
    /\ uid \in Ids(auth_users)
    /\ Cardinality(media_likes) < MaxLikes
    /\ LET row == [id |-> Least((1..MaxLikes) \ Ids(media_likes)),
                   user_id |-> user_id, media_id |-> m, by |-> uid]
       IN  IF ~ /\ user_id \in Ids(profiles)
                /\ m \in DOMAIN media_content
                /\ LikeInsertCheck(uid, row)
           THEN /\ UNCHANGED <<media_likes, media_content>>
                /\ stmt' = Statement(uid, "like", FALSE)
           ELSE IF ~LikeUnique(media_likes, row)
           THEN /\ UNCHANGED <<media_likes, media_content>>
                /\ stmt' = [Statement(uid, "like", FALSE)
                               EXCEPT !.error = "unique_violation"]
           ELSE /\ media_likes' = media_likes \cup {row}
                /\ media_content' = LikeCounted(uid, media_content, m)
                /\ stmt' = Statement(uid, "like", TRUE)
    /\ UNCHANGED <<auth_users, profiles, now, advances>>
    /\ UNCHANGED <<cacheVars, pageVars, rangeVars, instVars, tipVars>>

\* DELETE FROM media_likes WHERE user_id = ... AND media_id = m by the
\* authenticated user uid: the delete policy picks the rows; then the trigger
\* counts the like down, as the same user
Unlike(uid, user_id, m) ==
    /\ uid \in Ids(auth_users)
    /\ LET rows == {l \in media_likes : /\ l.user_id = user_id
                                        /\ l.media_id = m
                                        /\ LikeDeleteUsing(uid, l)}
       IN  IF rows # {}
           THEN /\ media_likes' = media_likes \ rows
                /\ media_content' = UnlikeCounted(uid, media_content, m)
                /\ stmt' = Statement(uid, "unlike", TRUE)
           ELSE /\ UNCHANGED <<media_likes, media_content>>
                /\ stmt' = Statement(uid, "unlike", FALSE)
    /\ UNCHANGED <<auth_users, profiles, now, advances>>
    /\ UNCHANGED <<cacheVars, pageVars, rangeVars, instVars, tipVars>>

\* the rows a statement may try to write
MediaRows ==
    {MediaRow(u, sc, c) : u \in AllUserIds \cup {Null}, sc \in BOOLEAN,
                          c \in CountInputs}

NextDb ==
    \/ \E id \in UserIds, email \in Emails \cup {Null} : SignUp(id, email)
    \/ \E id \in AllUserIds : DeleteUser(id)
    \/ \E m \in MediaIds : SeedUserContent(m)
    \/ \E m \in MediaIds : SeedSystemContent(m)
    \/ \E uid \in AllUserIds, id \in AllUserIds, email \in Emails :
           InsertProfile(uid, id, email)
    \/ \E uid \in AllUserIds, m \in MediaIds, row \in MediaRows :
           InsertMedia(uid, m, row)
    \/ \E uid \in AllUserIds, m \in MediaIds, row \in MediaRows :
           UpdateMedia(uid, m, row)
    \/ \E uid \in AllUserIds, m \in MediaIds : DeleteMedia(uid, m)
    \/ \E uid \in AllUserIds, user_id \in AllUserIds, m \in MediaIds :
           Like(uid, user_id, m)
    \/ \E uid \in AllUserIds, user_id \in AllUserIds, m \in MediaIds :
           Unlike(uid, user_id, m)

SpecDb == Init /\ [][NextDb]_vars

\* the last statement was run by an authenticated user
ByUser == stmt.uid # Null

\* C17: under the policies in force, for every authenticated user and every
\* media_content row (the user's own, another user's, system content), a
\* successful insert into media_likes raises the likes_count of the liked
\* row by exactly 1 and a successful delete lowers it by exactly 1.
C17_LikesCounted ==
    [][/\ (ByUser' /\ stmt'.op = "like")
              => \A l \in media_likes' \ media_likes :
                     media_content'[l.media_id].likes_count
                         = media_content[l.media_id].likes_count + 1
       /\ (ByUser' /\ stmt'.op = "unlike")
              => \A l \in media_likes \ media_likes' :
                     media_content'[l.media_id].likes_count
                         = media_content[l.media_id].likes_count - 1]_vars

\* C18: under the final policies an authenticated user can insert, update
\* or delete a media_content row only when the row's user_id is that user's
\* id: no statement of a user creates, changes or removes a row attributed
\* to another user or to none.
C18_OwnRowsOnly ==
    [][ByUser' =>
           /\ \A m \in (DOMAIN media_content') \ DOMAIN media_content :
                  media_content'[m].user_id = stmt'.uid
           /\ \A m \in (DOMAIN media_content) \ DOMAIN media_content' :
                  media_content[m].user_id = stmt'.uid
           /\ \A m \in (DOMAIN media_content) \cap DOMAIN media_content' :
                  media_content'[m] # media_content[m]
                      => /\ media_content[m].user_id = stmt'.uid
                         /\ media_content'[m].user_id = stmt'.uid]_vars

\* C19: after any sequence of likes, unlikes and permitted row updates the
\* counter of every media_content row is at least 0.
C19_CountersNonNegative ==
    \A m \in DOMAIN media_content : media_content[m].likes_count >= 0

\* C20: after any sequence of signups, the seed's system user included, and
\* user deletions, every auth.users row has exactly one profiles row of the
\* same id, and no profile is without its user.
C20_OneProfilePerUser ==
    /\ \A u \in auth_users :
           Cardinality({r \in profiles : r.id = u.id}) = 1
    /\ \A r \in profiles : r.id \in Ids(auth_users)
    /\ Cardinality(Ids(auth_users)) = Cardinality(auth_users)

\* the system user of the seed and two signups, one of them deleted again
C20_Witness ==
    /\ stmt.op = "delete_user"
    /\ Ids(auth_users) = {SystemUser, "u2"}
    /\ Ids(profiles) = {SystemUser, "u2"}

\* ---------------------------------------------------------------------
\* Several QueryCache instances: globalQueryCache, made when the module is
\* loaded, and the instance a caller makes with createQueryCache

\* the instance createQueryCache returns
Created == "created"

\* the default TTLs createQueryCache is called with: none (the default of
\* the constructor) or a short one
CreateTTLs == {DEFAULT_TTL, ShortTTL}

\* the ttl arguments passed to set on an instance of default TTL d
SetTTLs(d) == {d, LongTTL}

\* the amounts by which the clock advances while several instances are used
Steps == {ShortTTL}

Put_shared(insts, c, q) ==
    [d \in DOMAIN insts |-> IF d = c THEN q
                            ELSE [insts[d] EXCEPT !.cache = q.cache]]

\* the instances after instance c went to state q: cache and defaultTTL are
\* fields of the instance
Put(insts, c, q) == [insts EXCEPT ![c] = q]

\* what get(key) on instance q returns at time t
GetReturnOf(q, k, t) ==
    IF k \notin DOMAIN q.cache THEN Null
    ELSE IF IsStale(q.cache[k], t, q.defaultTTL) THEN Null
    ELSE q.cache[k].data

\* the map get(key) on instance q leaves behind at time t
GetCacheOf(q, k, t) ==
    IF k \in DOMAIN q.cache /\ IsStale(q.cache[k], t, q.defaultTTL)
    THEN MapDelete(q.cache, k)
    ELSE q.cache

\* the record of a call on instance c
CallOn(c, op, k, ret) == [inst |-> c, op |-> op, key |-> k, ret |-> ret]

\* createQueryCache(ttl)
CreateQueryCache(ttl) ==
    /\ Created \notin DOMAIN instances
    /\ instances' = [c \in (DOMAIN instances) \cup {Created} |->
                        IF c = Created THEN New(ttl) ELSE instances[c]]
    /\ lastOn' = CallOn(Created, "create", Null, Null)
    /\ UNCHANGED <<now, advances>>
    /\ UNCHANGED <<cacheVars, pageVars, rangeVars, dbVars, tipVars>>

\* all timers pending, of all instances
AllTimers(insts) ==
    {x \in [inst : DOMAIN insts,
            timer : UNION {insts[e].timers : e \in DOMAIN insts}] :
        x.timer \in insts[x.inst].timers}

\* c.set(key, data, ttl)
SetOn(c, k, v, ttl) ==
    /\ c \in DOMAIN instances
    /\ LET q == instances[c]
           r == [q EXCEPT !.cache = MapSet(q.cache, k, DataEntry(v, now)),
                          !.timers = q.timers \cup {Timer(k, ttl, now)}]
       IN  /\ Cardinality(AllTimers(Put(instances, c, r))) <= MaxTimers
           /\ instances' = Put(instances, c, r)
    /\ lastOn' = CallOn(c, "set", k, Null)
    /\ UNCHANGED <<now, advances>>
    /\ UNCHANGED <<cacheVars, pageVars, rangeVars, dbVars, tipVars>>

\* c.get(key)
GetOn(c, k) ==
    /\ c \in DOMAIN instances
    /\ instances' = Put(instances, c,
           [instances[c] EXCEPT !.cache = GetCacheOf(instances[c], k, now)])
    /\ lastOn' = CallOn(c, "get", k, GetReturnOf(instances[c], k, now))
    /\ UNCHANGED <<now, advances>>
    /\ UNCHANGED <<cacheVars, pageVars, rangeVars, dbVars, tipVars>>

\* c.delete(key)
DeleteOn(c, k) ==
    /\ c \in DOMAIN instances
    /\ instances' = Put(instances, c,
           [instances[c] EXCEPT !.cache = MapDelete(instances[c].cache, k)])
    /\ lastOn' = CallOn(c, "delete", k, Null)
    /\ UNCHANGED <<now, advances>>
    /\ UNCHANGED <<cacheVars, pageVars, rangeVars, dbVars, tipVars>>

\* c.clear()
ClearOn(c) ==
    /\ c \in DOMAIN instances
    /\ instances' = Put(instances, c, [instances[c] EXCEPT !.cache = <<>>])
    /\ lastOn' = CallOn(c, "clear", Null, Null)
    /\ UNCHANGED <<now, advances>>
    /\ UNCHANGED <<cacheVars, pageVars, rangeVars, dbVars, tipVars>>

\* c.setError(key, error)
SetErrorOn(c, k, e) ==
    /\ c \in DOMAIN instances
    /\ instances' = Put(instances, c,
           [instances[c] EXCEPT
               !.cache = MapSet(instances[c].cache, k, ErrorEntry(e, now))])
    /\ lastOn' = CallOn(c, "setError", k, Null)
    /\ UNCHANGED <<now, advances>>
    /\ UNCHANGED <<cacheVars, pageVars, rangeVars, dbVars, tipVars>>

\* the timers of instance q whose callback runs when the clock reaches t
DueOf(q, t) == {tm \in q.timers : tm.due <= t}

\* the clock advances by d: the callback of every due timer deletes its key
\* from the map of the instance whose set scheduled it
AdvanceAll(d) ==
    /\ advances < MaxElapses
    /\ advances' = advances + 1
    /\ now' = now + d
    /\ instances' =
           [c \in DOMAIN instances |->
               [instances[c] EXCEPT
                   !.cache = Fired(instances[c].cache, DueOf(instances[c], now + d)),
                   !.timers = instances[c].timers \ DueOf(instances[c], now + d)]]
    /\ lastOn' = CallOn(Null, "advance", Null, Null)
    /\ UNCHANGED <<cacheVars, pageVars, rangeVars, dbVars, tipVars>>

NextInstances ==
    \/ \E ttl \in CreateTTLs : CreateQueryCache(ttl)
    \/ \E c \in DOMAIN instances :
           \E ttl \in SetTTLs(instances[c].defaultTTL) : SetOn(c, "k1", "v1", ttl)
    \/ \E c \in DOMAIN instances : GetOn(c, "k1")
    \/ \E c \in DOMAIN instances : DeleteOn(c, "k1")
    \/ \E c \in DOMAIN instances : ClearOn(c)
    \/ \E c \in DOMAIN instances, e \in Errors : SetErrorOn(c, "k1", e)
    \/ \E d \in Steps : AdvanceAll(d)

SpecInstances == Init /\ [][NextInstances]_vars

\* the entries and the size of instance c
Store(insts, c) == [entries |-> insts[c].cache,
                    size |-> Cardinality(DOMAIN insts[c].cache)]

\* C21: globalQueryCache and the instance made by createQueryCache are
\* separate stores.  A set, setError, get, delete or clear on one instance
\* leaves the entries and the size of every other instance as they were, and
\* so does creating an instance; a timer removes an entry only from the
\* instance whose set scheduled it; and get on an instance tells staleness
\* by the default TTL of that instance.
C21_SeparateStores ==
    [][/\ lastOn'.op \in {"set", "setError", "get", "delete", "clear", "create"}
              => \A d \in (DOMAIN instances) \ {lastOn'.inst} :
                     /\ Store(instances', d) = Store(instances, d)
                     /\ instances'[d].defaultTTL = instances[d].defaultTTL
       /\ lastOn'.op = "advance"
              => \A d \in DOMAIN instances :
                     /\ (DOMAIN instances[d].cache) \ DOMAIN instances'[d].cache
                            \subseteq {tm.key : tm \in DueOf(instances[d], now')}
                     /\ \A k \in DOMAIN instances'[d].cache :
                            instances'[d].cache[k] = instances[d].cache[k]
       /\ lastOn'.op = "get"
              => LET q == instances[lastOn'.inst]
                     k == lastOn'.key
                 IN  k \in DOMAIN q.cache
                         => lastOn'.ret =
                                IF now - q.cache[k].timestamp > q.defaultTTL
                                THEN Null ELSE q.cache[k].data]_vars

\* an instance created with the short default TTL, one of its timers still
\* pending, has just answered null to get(k1) and holds no k1, while
\* globalQueryCache still holds its k1, older than the short TTL and fresh
\* by its own default TTL
C21_Witness ==
    /\ Created \in DOMAIN instances
    /\ instances[Created].defaultTTL = ShortTTL
    /\ lastOn = CallOn(Created, "get", "k1", Null)
    /\ "k1" \notin DOMAIN instances[Created].cache
    /\ Created \in {x.inst : x \in AllTimers(instances)}
    /\ "k1" \in DOMAIN instances["globalQueryCache"].cache
    /\ instances["globalQueryCache"].cache["k1"].data = "v1"
    /\ now - instances["globalQueryCache"].cache["k1"].timestamp > ShortTTL

\* C22: when get(k) answers absent because the stored entry is stale, it
\* evicts the entry (has(k) is then false and getSize() one smaller, the
\* other entries stay); when get(k) returns a value, or k has no entry, the
\* contents of the cache are unchanged.
C22_StaleEvicted ==
    [][\A k \in Keys :
           (last'.op = "get" /\ last'.key = k)
               => IF k \in DOMAIN cache /\ Age(k) > defaultTTL
                  THEN /\ last'.ret = Null
                       /\ ~HasReturn(k)'
                       /\ GetSizeReturn' = GetSizeReturn - 1
                       /\ cache' = MapDelete(cache, k)
                  ELSE cache' = cache]_vars

\* k1 was written once, by a set with the long ttl whose timer is still
\* pending, is older than the default TTL, and the get just made has found
\* it stale: it is gone
C22_Witness ==
    /\ last.op = "get"
    /\ last.key = "k1"
    /\ last.ret = Null
    /\ log["k1"].n = 1
    /\ now - log["k1"].at > defaultTTL
    /\ now - log["k1"].at < log["k1"].ttl
    /\ "k1" \notin DOMAIN cache

\* C23: a removal timer scheduled by set(k, v1, t1) removes only the entry
\* that call stored.  When k has been written again before the timer fires
\* (by a later set, after a delete or clear, or by setError), the newer entry
\* is not removed by the older timer: an entry leaves the map at a firing of
\* timers only if it is a data entry whose own ttl has elapsed.
C23_OwnTimerOnly ==
    [][last'.op = "advance"
           => \A k \in (DOMAIN cache) \ DOMAIN cache' :
                  /\ cache[k].error = Null
                  /\ cache[k].timestamp + ttlOf[k] <= now']_vars

StopInstant(k) ==
    Least({tm.due : tm \in {x \in timers : x.key = k}}
              \cup {cache[k].timestamp + defaultTTL + 1})

\* C25: reads never extend an entry's life.  get(k) and has(k) leave the
\* pending timers and the timestamp of every entry they leave in the map
\* unchanged, so the instant at which an entry stops being returned stays
\* what it was after the last write, however often the entry is read; and a
\* value is only ever returned before that instant.
C25_ReadsDoNotExtend ==
    [][last'.op \in {"get", "has"}
           => /\ timers' = timers
              /\ \A k \in DOMAIN cache' :
                     /\ k \in DOMAIN cache
                     /\ cache'[k].timestamp = cache[k].timestamp
                     /\ StopInstant(k)' = StopInstant(k)
              /\ (last'.op = "get" /\ last'.ret # Null)
                     => now < StopInstant(last'.key)]_vars

\* an entry with a pending timer has just been read, some time after it
\* was stored, and is still stored
C25_Witness ==
    /\ last.op = "get"
    /\ last.ret # Null
    /\ last.key \in DOMAIN cache
    /\ Age(last.key) > 0
    /\ \E tm \in timers : tm.key = last.key

\* what get(j) returns at time t from map m
Read(m, j, t) ==
    IF j \notin DOMAIN m THEN Null
    ELSE IF IsStale(m[j], t, defaultTTL) THEN Null
    ELSE m[j].data

\* key j is the same in the map before and after the step: present or
\* absent alike, with the same data, timestamp and error, the same has(j) and
\* the same get(j)
SameEntry(j) ==
    /\ (j \in DOMAIN cache') <=> (j \in DOMAIN cache)
    /\ j \in DOMAIN cache => cache'[j] = cache[j]
    /\ HasReturn(j)' = HasReturn(j)
    /\ GetReturn(j)' = Read(cache, j, now')

\* C26: set(k, ...), setError(k, ...), delete(k), a stale get(k) and the
\* firing of a removal timer for k change only the entry of key k: every
\* other key j keeps its data, timestamp and error, and has(j) and get(j)
\* answer as they would have without the step.
C26_OtherKeysUntouched ==
    [][/\ last'.op \in {"set", "setError", "delete", "get"}
              => \A j \in Keys \ {last'.key} : SameEntry(j)
       /\ last'.op = "advance"
              => \A j \in Keys \ {tm.key : tm \in Due(now')} : SameEntry(j)]_vars

\* k1 and k2 were both stored; the timer of k1 has just fired and removed
\* k1, and k2 is still there
C26_Witness ==
    /\ last.op = "advance"
    /\ log["k1"].n = 1
    /\ "k1" \notin DOMAIN cache
    /\ "k2" \in DOMAIN cache
    /\ cache["k2"].data = "v1"
    /\ \E tm \in timers : tm.key = "k2"

\* ------------------------------------------------------------------ tips
\* COALESCE(NEW.raw_user_meta_data->>'name', 'User') of handle_new_user()
ProfileName(meta) == IF meta = Null THEN "User" ELSE meta

\* policy "Tips viewable by sender and recipient", FOR SELECT
TipSelectUsing(uid, row) == uid = row.from_user_id

\* policy "Authenticated users can send tips", FOR INSERT
TipInsertCheck(uid, row) == uid = row.from_user_id

\* a signup whose trigger creates the profile with the name of the metadata
SignUpNamed(id, meta) ==
    /\ id \notin DOMAIN profileNames
    /\ profileNames' = MapSet(profileNames, id, ProfileName(meta))
    /\ UNCHANGED <<tips, seen, now, advances>>
    /\ UNCHANGED <<cacheVars, pageVars, rangeVars, dbVars, instVars>>

\* DELETE FROM auth.users: ON DELETE CASCADE removes the profile and the tips
\* the user sent
DeleteTipper(id) ==
    /\ id \in DOMAIN profileNames
    /\ profileNames' = MapDelete(profileNames, id)
    /\ tips' = {t \in tips : t.from_user_id # id}
    /\ UNCHANGED <<seen, now, advances>>
    /\ UNCHANGED <<cacheVars, pageVars, rangeVars, dbVars, instVars>>

\* INSERT INTO tips (from_user_id, creator_name, ...) by the authenticated
\* user uid: from_user_id REFERENCES profiles(id), the insert policy checks the
\* row, the id is new
SendTip(uid, from_user_id, creator_name) ==
    /\ uid \in DOMAIN profileNames
    /\ Cardinality(tips) < MaxTips
    /\ LET id == Least((1..MaxTips) \ Ids(tips))
           row == [id |-> id, from_user_id |-> from_user_id,
                   creator_name |-> creator_name]
       IN  IF from_user_id \in DOMAIN profileNames /\ TipInsertCheck(uid, row)
           THEN tips' = tips \cup {row}
           ELSE UNCHANGED tips
    /\ UNCHANGED <<profileNames, seen, now, advances>>
    /\ UNCHANGED <<cacheVars, pageVars, rangeVars, dbVars, instVars>>

\* SELECT * FROM tips by the authenticated user uid: the rows the select
\* policy lets through
SelectTips(uid) ==
    /\ uid \in DOMAIN profileNames
    /\ seen' = [uid |-> uid, table |-> tips,
                rows |-> {t \in tips : TipSelectUsing(uid, t)}]
    /\ UNCHANGED <<profileNames, tips, now, advances>>
    /\ UNCHANGED <<cacheVars, pageVars, rangeVars, dbVars, instVars>>

NextTips ==
    \/ \E id \in UserIds, meta \in MetaNames : SignUpNamed(id, meta)
    \/ \E id \in UserIds : DeleteTipper(id)
    \/ \E uid \in UserIds, from_user_id \in UserIds, c \in CreatorNames :
           SendTip(uid, from_user_id, c)
    \/ \E uid \in UserIds : SelectTips(uid)

SpecTips == Init /\ [][NextTips]_vars

\* the creator a tip went to: the profile named by creator_name
Recipient(uid, row) ==
    uid \in DOMAIN profileNames /\ profileNames[uid] = row.creator_name

\* C27: a tip is viewable by its sender and by its recipient: a SELECT on
\* tips returns to a user exactly the rows that user sent or received.
C27_SenderAndRecipient ==
    seen.uid \in DOMAIN profileNames
        => seen.rows = {t \in seen.table :
                           \/ seen.uid = t.from_user_id
                           \/ Recipient(seen.uid, t)}

\* C28: after any sequence of like and unlike requests by authenticated
\* users, two likes of one user for one media made at once included,
\* media_likes holds at most one row per (user_id, media_id), and the user_id
\* of every row is the id of the user who inserted it.
C28_OneLikePerPair ==
    /\ \A l1, l2 \in media_likes :
           (l1.user_id = l2.user_id /\ l1.media_id = l2.media_id) => l1 = l2
    /\ \A l \in media_likes : l.by = l.user_id

\* a user who has liked a media row has just liked it once more, and the
\* second insert failed on the unique index
C28_Witness ==
    /\ stmt.op = "like"
    /\ stmt.error = "unique_violation"
    /\ \E l \in media_likes : l.user_id = stmt.uid /\ l.by = stmt.uid

\* C29: after the system-content migration no statement of an authenticated
\* user updates or deletes a media_content row with system_content = true,
\* and every row a user updates has system_content = false afterwards.
C29_SystemContentProtected ==
    [][ByUser' =>
           /\ \A m \in DOMAIN media_content :
                  media_content[m].system_content
                      => /\ m \in DOMAIN media_content'
                         /\ media_content'[m] = media_content[m]
           /\ \A m \in (DOMAIN media_content) \cap DOMAIN media_content' :
                  media_content'[m] # media_content[m]
                      => ~media_content'[m].system_content]_vars

\* a user has just run an UPDATE on the seeded system content, which is
\* still there with the counter of the seed
C29_Witness ==
    /\ ByUser
    /\ stmt.op = "update_media"
    /\ ~stmt.ok
    /\ \E m \in DOMAIN media_content :
           media_content[m] = MediaRow(Null, TRUE, SeedLikes)

====
